---- MODULE Spec2Model ----
(***************************************************************************)
(* DAG-chat backend: the SubDAG builder, the chain-preserving topological  *)
(* sort and the streaming dispatcher with its persistence step             *)
(* (backend/api/routes/chat.py), over the node store (MongoDB collection   *)
(* message_node) and the metadata store (MySQL table t_conversations).     *)
(*                                                                         *)
(* Id strings are modelled as integers:                                    *)
(*   1 .. UpperBase  the canonical (lower-case) 24-hex string of ObjectId k*)
(*   UpperBase + k   the same 24 hex digits of ObjectId k in upper case    *)
(*   0               the empty string                                      *)
(*   -1              a non-empty string that is no ObjectId                *)
(***************************************************************************)
EXTENDS Integers, Sequences, FiniteSets, TLC

VARIABLES
    nodes,        \* message_node: ObjectId -> document
    dag,          \* the last call of a function or handler that returns a value
    convs,        \* t_conversations: conversation id -> row
    turns,        \* the calls of POST /chat, in order of arrival
    oid_counter,  \* the next ObjectId the node store generates
    clock,        \* datetime.now()
    instances     \* ModelFactory._instances: the model names with a service

vars == <<nodes, dag, convs, turns, oid_counter, clock, instances>>

dispatcher_vars == <<convs, turns, oid_counter, clock, instances>>

(***************************************************************************)
(* Bounds of the model and constants of the program.                       *)
(***************************************************************************)
MaxNodes == 4
MaxStart == 2
max_depth == 2000
batch_limit == 100

EmptyStr == 0
Malformed == -1

(***************************************************************************)
(* Generic helpers.                                                        *)
(***************************************************************************)
Range(s) == {s[i] : i \in 1..Len(s)}

Reverse(s) == [i \in 1..Len(s) |-> s[Len(s) + 1 - i]]

Min(a, b) == IF a <= b THEN a ELSE b

\* Python's sorted() on a set of canonical id strings.
RECURSIVE sorted(_)
sorted(S) ==
    IF S = {} THEN <<>>
    ELSE LET m == CHOOSE x \in S : \A y \in S : x <= y
         IN <<m>> \o sorted(S \ {m})

IndexOf(s, x) == CHOOSE i \in 1..Len(s) : s[i] = x

(***************************************************************************)
(* bson.ObjectId: ObjectId(s) raises InvalidId unless s is a 24-hex        *)
(* string; str(oid) is its canonical spelling.                             *)
(***************************************************************************)
UpperBase == 100000

Upper(k) == UpperBase + k

WellFormed(s) == s >= 1

ObjectId(s) == IF s > UpperBase THEN s - UpperBase ELSE s

str(oid) == oid

(***************************************************************************)
(* MongoDBConnection.find('message_node', {'_id': {'$in': ids}}): the      *)
(* stored documents whose _id is among ids, each once, in the collection's *)
(* order (ascending _id, or descending when desc).                         *)
(***************************************************************************)
find(store, ids, desc) ==
    LET hit == sorted({i \in ids : i \in DOMAIN store})
    IN IF desc THEN Reverse(hit) ELSE hit

(***************************************************************************)
(* build_dag_from_parents.                                                 *)
(***************************************************************************)
\* Mutant: only the first parent of a node is followed upward.
QueueParents_first_only(pids, visited, queue) ==
    IF pids = <<>> THEN queue
    ELSE LET p == Head(pids)
         IN IF p # EmptyStr /\ p \notin visited /\ WellFormed(p)
            THEN Append(queue, ObjectId(p))
            ELSE queue

\* for parent_id in node.get('parent_ids', []): queue what is not visited.
RECURSIVE QueueParents(_, _, _)
QueueParents(pids, visited, queue) ==
    IF pids = <<>> THEN queue
    ELSE LET p == Head(pids)
         IN QueueParents(Tail(pids), visited,
                IF p # EmptyStr /\ p \notin visited /\ WellFormed(p)
                THEN Append(queue, ObjectId(p))
                ELSE queue)

\* for node in nodes: record the unvisited ones, in the order find gave them.
RECURSIVE VisitBatch(_, _, _, _, _)
VisitBatch(found, store, visited, keys, queue) ==
    IF found = <<>> THEN [visited |-> visited, keys |-> keys, queue |-> queue]
    ELSE LET node_id == str(Head(found))
         IN IF node_id \notin visited
            THEN VisitBatch(Tail(found), store, visited \cup {node_id},
                            Append(keys, node_id),
                            QueueParents(store[Head(found)].parent_ids,
                                         visited \cup {node_id}, queue))
            ELSE VisitBatch(Tail(found), store, visited, keys, queue)

\* while queue and current_depth < max_depth: one batched lookup per round.
RECURSIVE BfsLoop(_, _, _, _, _, _)
BfsLoop(store, queue, visited, keys, current_depth, desc) ==
    IF queue = <<>> \/ current_depth >= max_depth THEN keys
    ELSE LET batch_size == Min(Len(queue), batch_limit)
             current_batch == SubSeq(queue, 1, batch_size)
             rest == SubSeq(queue, batch_size + 1, Len(queue))
             r == VisitBatch(find(store, Range(current_batch), desc),
                             store, visited, keys, rest)
         IN BfsLoop(store, r.queue, r.visited, r.keys, current_depth + 1, desc)

\* edges[parent_id].append(node_id) for every parent_id that is a key of node_map.
RECURSIVE EdgesOfNode(_, _, _, _)
EdgesOfNode(edges, pids, node_id, keyset) ==
    IF pids = <<>> THEN edges
    ELSE LET p == Head(pids)
         IN EdgesOfNode(IF p \in keyset
                        THEN [edges EXCEPT ![p] = Append(@, node_id)]
                        ELSE edges,
                        Tail(pids), node_id, keyset)

RECURSIVE BuildEdges(_, _, _, _)
BuildEdges(store, todo, keyset, edges) ==
    IF todo = <<>> THEN edges
    ELSE BuildEdges(store, Tail(todo), keyset,
                    EdgesOfNode(edges, store[ObjectId(Head(todo))].parent_ids,
                                Head(todo), keyset))

EmptyDag == [node_map |-> <<>>, edges |-> <<>>]

\* node_map is given by its keys in insertion order (the documents are those of
\* the store); edges maps every key to its child list (edges.get(k, [])).
build_dag_from_parents(store, parent_ids, desc) ==
    IF parent_ids = <<>> THEN EmptyDag
    ELSE IF \E i \in 1..Len(parent_ids) :
                parent_ids[i] # EmptyStr /\ ~WellFormed(parent_ids[i])
    THEN EmptyDag
    ELSE LET given == SelectSeq(parent_ids, LAMBDA pid : pid # EmptyStr)
             start_ids == [i \in 1..Len(given) |-> ObjectId(given[i])]
             keys == BfsLoop(store, start_ids, {}, <<>>, 0, desc)
         IN [node_map |-> keys,
             edges |-> BuildEdges(store, keys, Range(keys),
                                  [k \in Range(keys) |-> <<>>])]

(***************************************************************************)
(* topological_sort_subdag.                                                *)
(***************************************************************************)
\* Mutant: the in-degree counts every parent_ids entry, also those outside the
\* SubDAG.
in_degree_all_parents(store, keyset, n) ==
    Len(store[ObjectId(n)].parent_ids)

\* Mutant: the in-degree only records whether a node has a parent in the SubDAG.
in_degree_as_flag(store, keyset, n) ==
    LET pids == store[ObjectId(n)].parent_ids
    IN IF \E i \in 1..Len(pids) : pids[i] \in keyset THEN 1 ELSE 0

\* in_degree[n]: the entries of n's parent_ids that are keys of node_map.
in_degree(store, keyset, n) ==
    LET pids == store[ObjectId(n)].parent_ids
    IN Cardinality({i \in 1..Len(pids) : pids[i] \in keyset})

\* out_degree[n]: the entries of edges[n] that are keys of node_map.
out_degree(edges, keyset, n) ==
    Cardinality({i \in 1..Len(edges[n]) : edges[n][i] \in keyset})

None == 0

\* Mutant: strategy 1 without the test of the original in-degree.
chain_child_any_degree(child_id, available, indeg) ==
    child_id \in available

\* Strategy 1: the first child of last_node, in edges order, that is available
\* and whose original in-degree is 1.
chain_child_ok(child_id, available, indeg) ==
    child_id \in available /\ indeg[child_id] = 1

RECURSIVE continue_chain(_, _, _)
continue_chain(children, available, indeg) ==
    IF children = <<>> THEN None
    ELSE IF chain_child_ok(Head(children), available, indeg) THEN Head(children)
    ELSE continue_chain(Tail(children), available, indeg)

\* Strategy 2: the first available node, by id, with in-degree 1 and out-degree 1.
RECURSIVE start_chain(_, _, _)
start_chain(candidates, indeg, outdeg) ==
    IF candidates = <<>> THEN None
    ELSE IF indeg[Head(candidates)] = 1 /\ outdeg[Head(candidates)] = 1
         THEN Head(candidates)
    ELSE start_chain(Tail(candidates), indeg, outdeg)

\* One choice of the while loop: the node selected and the strategy that chose it.
select_node(result, available, edges, indeg, outdeg) ==
    IF result = <<>> THEN [node |-> sorted(available)[1], rule |-> "first"]
    ELSE LET last_node == result[Len(result)].node
             s1 == continue_chain(edges[last_node], available, indeg)
             s2 == start_chain(sorted(available), indeg, outdeg)
         IN IF s1 # None THEN [node |-> s1, rule |-> "chain"]
            ELSE IF s2 # None THEN [node |-> s2, rule |-> "new_chain"]
            ELSE [node |-> sorted(available)[1], rule |-> "any"]

\* for child_id in edges.get(selected, []): decrement, release at zero.
RECURSIVE release_children(_, _, _, _)
release_children(children, keyset, copy, available) ==
    IF children = <<>> THEN [copy |-> copy, available |-> available]
    ELSE LET c == Head(children)
         IN IF c \in keyset
            THEN release_children(Tail(children), keyset,
                                  [copy EXCEPT ![c] = @ - 1],
                                  IF copy[c] - 1 = 0 THEN available \cup {c}
                                  ELSE available)
            ELSE release_children(Tail(children), keyset, copy, available)

RECURSIVE sort_loop(_, _, _, _, _, _, _)
sort_loop(result, available, copy, keyset, edges, indeg, outdeg) ==
    IF available = {} THEN result
    ELSE LET sel == select_node(result, available, edges, indeg, outdeg)
             r == release_children(edges[sel.node], keyset, copy,
                                   available \ {sel.node})
         IN sort_loop(Append(result, sel), r.available, r.copy,
                      keyset, edges, indeg, outdeg)

\* The run of the sort: the selected nodes in order, each with its strategy.
sort_run(store, node_map, edges) ==
    IF node_map = <<>> THEN <<>>
    ELSE LET keyset == Range(node_map)
             indeg == [n \in keyset |-> in_degree(store, keyset, n)]
             outdeg == [n \in keyset |-> out_degree(edges, keyset, n)]
         IN sort_loop(<<>>, {n \in keyset : indeg[n] = 0}, indeg,
                      keyset, edges, indeg, outdeg)

topological_sort_subdag(store, node_map, edges) ==
    LET run == sort_run(store, node_map, edges)
    IN [i \in 1..Len(run) |-> run[i].node]

(***************************************************************************)
(* Documents of message_node (models/schemas.py, MessageNode).             *)
(***************************************************************************)
MessageNode(conversation_id, role, content, model, parent_ids, children) ==
    [conversation_id |-> conversation_id, role |-> role, content |-> content,
     model |-> model, parent_ids |-> parent_ids, children |-> children]

(***************************************************************************)
(* SpecDag: build_dag_from_parents and topological_sort_subdag applied to  *)
(* bounded stores.  A store holds nodes 1..MaxNodes inserted in ascending  *)
(* or in descending id order; a node's parents are earlier nodes, and one  *)
(* node may also name the id Ghost, which names no stored node.            *)
(***************************************************************************)
Ghost == MaxNodes + 1

Earlier(i, desc) == IF desc THEN (i + 1)..MaxNodes ELSE 1..(i - 1)

\* The parent sets of nodes 1..n, each a set of earlier nodes.
RECURSIVE ParentChoices(_, _)
ParentChoices(n, desc) ==
    IF n = 0 THEN {<<>>}
    ELSE {Append(f, ps) : f \in ParentChoices(n - 1, desc),
                          ps \in SUBSET Earlier(n, desc)}

\* dangling: the node whose parent_ids also names Ghost (0: no node).
DagStores(desc) ==
    {[i \in 1..MaxNodes |->
        MessageNode("c1", "user", <<>>, "qwen",
                    sorted(ps[i] \cup (IF i = dangling THEN {Ghost} ELSE {})),
                    sorted({j \in 1..MaxNodes : i \in ps[j]}))] :
     ps \in ParentChoices(MaxNodes, desc), dangling \in 0..MaxNodes}

StartStrings == 1..MaxNodes \cup {Ghost, Upper(1), Malformed, EmptyStr}

StartLists == {sorted(S) : S \in {T \in SUBSET StartStrings : Cardinality(T) <= MaxStart}}

DagInit ==
    \E desc \in BOOLEAN :
        /\ nodes \in DagStores(desc)
        /\ dag \in {[phase |-> "input", desc |-> desc, parent_ids |-> pl,
                     node_map |-> <<>>, edges |-> <<>>, run |-> <<>>] :
                    pl \in StartLists}
    /\ convs = <<>>
    /\ turns = <<>>
    /\ oid_counter = MaxNodes + 2
    /\ clock = 1
    /\ instances = {}

DagBuild ==
    /\ dag.phase = "input"
    /\ LET r == build_dag_from_parents(nodes, dag.parent_ids, dag.desc)
       IN dag' = [dag EXCEPT !.phase = "built", !.node_map = r.node_map,
                             !.edges = r.edges]
    /\ UNCHANGED <<nodes, dispatcher_vars>>

DagSort ==
    /\ dag.phase = "built"
    /\ dag' = [dag EXCEPT !.phase = "sorted",
                          !.run = sort_run(nodes, dag.node_map, dag.edges)]
    /\ UNCHANGED <<nodes, dispatcher_vars>>

DagNext == DagBuild \/ DagSort

SpecDag == DagInit /\ [][DagNext]_vars

(***************************************************************************)
(* Properties of the SubDAG builder and of the sort (SpecDag).             *)
(***************************************************************************)
\* The stored nodes a node's parent_ids name.
ParentsOf(store, n) ==
    {ObjectId(s) : s \in {t \in Range(store[n].parent_ids) : WellFormed(t)}}
        \cap DOMAIN store

RECURSIVE AncestorClosure(_, _)
AncestorClosure(store, S) ==
    LET T == S \cup UNION {ParentsOf(store, n) : n \in S}
    IN IF T = S THEN S ELSE AncestorClosure(store, T)

StartNodes ==
    {ObjectId(s) : s \in {t \in Range(dag.parent_ids) : WellFormed(t)}}
        \cap DOMAIN nodes

StartsWellFormed ==
    \A i \in 1..Len(dag.parent_ids) : WellFormed(dag.parent_ids[i])

DagKeys == Range(dag.node_map)

DagOrder == [i \in 1..Len(dag.run) |-> dag.run[i].node]

\* The parents a SubDAG node has inside the SubDAG.
ParentsIn(c) == ParentsOf(nodes, c) \cap DagKeys

C2_TopoOrder ==
    dag.phase = "sorted" =>
        /\ \A p \in DagKeys : \A i \in 1..Len(dag.edges[p]) :
              /\ p \in Range(DagOrder) /\ dag.edges[p][i] \in Range(DagOrder)
              /\ IndexOf(DagOrder, p) < IndexOf(DagOrder, dag.edges[p][i])
        /\ \A c \in DagKeys : \A p \in ParentsIn(c) :
              /\ p \in Range(DagOrder) /\ c \in Range(DagOrder)
              /\ IndexOf(DagOrder, p) < IndexOf(DagOrder, c)

\* The sort has emitted a merge point: a node with two parents in the SubDAG.
C2_Witness ==
    /\ dag.phase = "sorted"
    /\ \E c \in Range(DagOrder) : Cardinality(ParentsIn(c)) >= 2

\* C3: the output is a permutation of the keys of node_map: every node once.
C3_Permutation ==
    dag.phase = "sorted" =>
        /\ Range(DagOrder) = DagKeys
        /\ Len(DagOrder) = Cardinality(DagKeys)

\* A linear chain of at least three nodes sorted root to leaf.
C3_Witness ==
    /\ dag.phase = "sorted"
    /\ Len(DagOrder) >= 3
    /\ \A i \in 1..Len(DagOrder) :
          ParentsIn(DagOrder[i]) = (IF i = 1 THEN {} ELSE {DagOrder[i - 1]})

\* The children of p, in edges[p] order, whose original in-degree is 1.
ChainChildren(p) ==
    SelectSeq(dag.edges[p], LAMBDA c : Cardinality(ParentsIn(c)) = 1)

\* C4: a node with a child of in-degree 1 is followed at once by the first such
\* child in edges order, and the continue-the-chain rule only ever picks a child
\* of the previous node whose in-degree is 1.
C4_ChainContinuity ==
    dag.phase = "sorted" =>
        \A i \in 1..Len(dag.run) :
            /\ ChainChildren(dag.run[i].node) # <<>>
                  => /\ i < Len(dag.run)
                     /\ dag.run[i + 1].node = ChainChildren(dag.run[i].node)[1]
            /\ dag.run[i].rule = "chain"
                  => /\ i > 1
                     /\ Cardinality(ParentsIn(dag.run[i].node)) = 1
                     /\ ParentsIn(dag.run[i].node) = {dag.run[i - 1].node}

\* The chain rule decided the order: a chain child was emitted right after its
\* parent although a smaller id was available, and a merge child of the same
\* parent had to wait.
C4_Witness ==
    /\ dag.phase = "sorted"
    /\ \E i \in 2..Len(dag.run) :
          /\ dag.run[i].rule = "chain"
          /\ \E j \in (i + 1)..Len(dag.run) :
                /\ dag.run[j].node < dag.run[i].node
                /\ ParentsIn(dag.run[j].node) \subseteq
                       {dag.run[k].node : k \in 1..(i - 1)}
          /\ \E j \in (i + 1)..Len(dag.run) :
                /\ dag.run[i - 1].node \in ParentsIn(dag.run[j].node)
                /\ Cardinality(ParentsIn(dag.run[j].node)) >= 2

(***************************************************************************)
(* The streaming dispatcher: POST /chat, generate and                      *)
(* save_conversation_to_database, with POST /create-conversation.          *)
(* A turn is one call of POST /chat.  In Spec the client sends a request   *)
(* when no turn is in progress, at most MaxTurns requests in all.          *)
(***************************************************************************)
MaxTurns == 2
MaxChunks == 2

ConvIds == {"c1", "c2"}

\* Model names a request can carry: two registered services and a name that
\* contains no registered service name.
Models == {"qwen", "deepseek", "gpt"}

\* The model of a create-conversation request: the default of the request.
CreateModels == {"deepseek"}

\* Text whose characters do not matter is modelled by where it comes from and
\* how many characters it has.  A chunk's content has ChunkChars characters.
ChunkChars == 12

\* len(full_content).
len(content) == ChunkChars * Len(content)

\* text[:n].
prefix(text, n) == [text EXCEPT !.len = Min(@, n)]

\* '未命名对话'.
DEFAULT_TITLE == [of |-> "default", len |-> 5]

\* The slice length of title[:20] and full_response[:20].
title_limit == 20

\* What the title request to the provider gives: <<>> when it raises or the
\* answer has no choices, else <<n>> for an answer of n characters once "。"
\* and newlines are stripped from its ends.
TitleCalls == {<<>>, <<title_limit + 5>>}

\* The registered service class whose name the normalized model name contains.
service_class(normalized_model) ==
    IF normalized_model \in {"qwen", "deepseek"} THEN normalized_model ELSE "None"

\* DeepSeekService.__init__ builds an OpenAI client, which raises without an
\* API key; QwenService.__init__ only stores two settings.
constructor_may_raise(service) == service = "deepseek"

\* ModelFactory.get_service: the cached instance of the model name, else a new
\* instance of the matching class, else None (no class matches, or the
\* constructor raised).
get_service(model_name, constructs) ==
    IF model_name \in instances THEN service_class(model_name)
    ELSE IF service_class(model_name) # "None" /\ constructs
         THEN service_class(model_name)
         ELSE "None"

\* generate(messages, deep_thinking): QwenService and KimiService take
\* deep_thinking, DeepSeekService.generate(self, messages) and
\* GLMService.generate(self, messages) do not.
accepts_deep_thinking(service) == service \in {"qwen", "kimi"}

\* generate_title: the provider's answer cut to 20 characters, or the first 20
\* characters of the reply when the request fails.  Without a service the
\* caller takes the first 20 characters of the reply itself (chat.py:457).
generate_title(service, message, full_content, title_call) ==
    IF service = "None" \/ title_call = <<>>
    THEN prefix([of |-> "reply", len |-> len(full_content)], title_limit)
    ELSE prefix([of |-> "title_call", len |-> title_call[1]], title_limit)

\* update_conversation_models: the header's model list with new_model added
\* when absent.
updated_model(current_models, new_model) ==
    IF current_models = <<>> THEN <<new_model>>
    ELSE IF new_model \in Range(current_models) THEN current_models
    ELSE Append(current_models, new_model)

\* Mutant: the messages are listed in the order of node_map, the order in
\* which the traversal met the nodes.
build_history_unsorted(store, parent_ids) ==
    IF parent_ids = <<>> THEN <<>>
    ELSE LET d == build_dag_from_parents(store, parent_ids, FALSE)
         IN [i \in 1..Len(d.node_map) |->
                [role |-> store[d.node_map[i]].role,
                 content |-> store[d.node_map[i]].content]]

\* build_history_from_parent_ids: the {role, content} of the SubDAG's nodes in
\* topological order.
build_history_from_parent_ids(store, parent_ids) ==
    IF parent_ids = <<>> THEN <<>>
    ELSE LET d == build_dag_from_parents(store, parent_ids, FALSE)
         IN IF d.node_map = <<>> THEN <<>>
            ELSE LET sorted_node_ids == topological_sort_subdag(store, d.node_map, d.edges)
                 IN [i \in 1..Len(sorted_node_ids) |->
                        [role |-> store[sorted_node_ids[i]].role,
                         content |-> store[sorted_node_ids[i]].content]]

Quiescent == \A t \in 1..Len(turns) : turns[t].pc = "done"

\* A well-formed id string that names no node the store ever holds.
Unassigned == 99

\* The strings a client can put in parent_ids: the ids of the stored nodes and
\* the two ids the store generates next, an id that names no node, an
\* upper-case spelling, a malformed string, the empty string.
RequestStrings == 1..(oid_counter + 1) \cup {Unassigned, Upper(1), Malformed}

\* parent_ids of a request: absent, one string, two stored nodes, or a stored
\* node after a malformed or empty string.
RequestLists ==
    {<<>>} \cup {<<s>> : s \in RequestStrings}
    \cup {<<p[1], p[2]>> : p \in {q \in (DOMAIN nodes) \X (DOMAIN nodes) : q[1] < q[2]}}
    \cup {<<s, a>> : s \in {Malformed, EmptyStr}, a \in DOMAIN nodes}

Init ==
    /\ nodes = <<>>
    /\ convs = <<>>
    /\ turns = <<>>
    /\ oid_counter = 1
    /\ clock = 1
    /\ instances = {}
    /\ dag = [phase |-> "idle"]

\* POST /create-conversation: a fresh uuid4, default title, the model of the
\* request.
CreateConversation(model) ==
    /\ Quiescent
    /\ ConvIds \ DOMAIN convs # {}
    /\ LET conversation_id == CHOOSE c \in ConvIds \ DOMAIN convs : TRUE
       IN convs' = convs @@ (conversation_id :>
                        [user_id |-> "zm-bad", title |-> DEFAULT_TITLE,
                         model |-> <<model>>, create_time |-> clock,
                         update_time |-> clock])
    /\ clock' = clock + 1
    /\ UNCHANGED <<nodes, turns, oid_counter, dag, instances>>

\* connect() of MySQLConnection or MongoDBConnection: the connection of the
\* request to the store db is open when the store answers.
connect(connections, db, ok) == IF ok THEN connections \cup {db} ELSE connections

\* disconnect(): an open connection is closed.
disconnect(connections, db) == connections \ {db}

\* POST /chat up to the return of the StreamingResponse: the history is built
\* when the node store answers, first_ask stays True when it is empty.  The
\* finally clause closes both connections as the function returns.
Chat(conversation_id, parent_ids, model, mongo_ok) ==
    /\ LET history_messages ==
               IF mongo_ok THEN build_history_from_parent_ids(nodes, parent_ids)
               ELSE <<>>
       IN turns' = Append(turns,
            [pc |-> "generate",
             conversation_id |-> conversation_id,
             parent_ids |-> parent_ids,
             model |-> model,
             first_ask |-> (history_messages = <<>>),
             chat_messages |-> Append(history_messages,
                                      [role |-> "user", content |-> <<"message">>]),
             full_content |-> <<>>,
             frames |-> <<>>,
             relayed |-> <<>>,
             user_message_id |-> None,
             ai_message_id |-> None,
             parent_message_nodes |-> <<>>,
             exit |-> "running",
             model_service |-> "unset",
             stream_ended |-> FALSE,
             connections |-> disconnect(disconnect(connect({}, "mongo", mongo_ok),
                                                   "mysql"), "mongo"),
             writes |-> {}])
    /\ UNCHANGED <<nodes, convs, oid_counter, clock, dag, instances>>

\* Turn t stands at the step pc.
Running(t, pc) == t \in 1..Len(turns) /\ turns[t].pc = pc

\* The generator returns: its last frame, if any, has been written, and its
\* locals are gone.
Return(turn, last_frames, exit) ==
    [turn EXCEPT !.pc = "done", !.frames = @ \o last_frames, !.exit = exit,
                 !.chat_messages = <<>>, !.full_content = <<>>,
                 !.parent_message_nodes = <<>>]

\* Mutant: a request whose model has no service goes on to the stream.
GenerateStart_without_check(t, constructs) ==
    /\ Running(t, "generate")
    /\ constructs \/ ( /\ constructor_may_raise(service_class(turns[t].model))
                       /\ turns[t].model \notin instances )
    /\ LET model_service == get_service(turns[t].model, constructs)
       IN /\ turns' = [turns EXCEPT ![t] =
                IF model_service # "None" /\ ~accepts_deep_thinking(model_service)
                THEN Return([@ EXCEPT !.model_service = model_service],
                            <<"failed">>, "exception")
                ELSE [@ EXCEPT !.pc = "stream", !.model_service = model_service]]
          /\ instances' = IF model_service = "None" THEN instances
                          ELSE instances \cup {turns[t].model}
    /\ UNCHANGED <<nodes, convs, oid_counter, clock, dag>>

\* generate, lines 311-336: the service of the model is looked up and its
\* stream is opened with (chat_messages, deep_thinking).  constructs tells
\* whether the constructor of a new instance returns.
GenerateStart(t, constructs) ==
    /\ Running(t, "generate")
    /\ constructs \/ ( /\ constructor_may_raise(service_class(turns[t].model))
                       /\ turns[t].model \notin instances )
    /\ LET model_service == get_service(turns[t].model, constructs)
       IN /\ turns' = [turns EXCEPT ![t] =
                IF model_service = "None"
                THEN Return([@ EXCEPT !.model_service = model_service],
                            <<"unsupported">>, "unsupported")
                ELSE IF ~accepts_deep_thinking(model_service)
                THEN Return([@ EXCEPT !.model_service = model_service],
                            <<"failed">>, "exception")
                ELSE [@ EXCEPT !.pc = "stream", !.model_service = model_service]]
          /\ instances' = IF model_service = "None" THEN instances
                          ELSE instances \cup {turns[t].model}
    /\ UNCHANGED <<nodes, convs, oid_counter, clock, dag>>

\* Mutant: the chunk is put in front of the accumulated content.
StreamChunk_prepended(t) ==
    /\ Running(t, "stream")
    /\ Len(turns[t].full_content) < MaxChunks
    /\ LET content == Len(turns[t].full_content) + 1
       IN turns' = [turns EXCEPT ![t].full_content = <<content>> \o @,
                                 ![t].frames = Append(@, "content"),
                                 ![t].relayed = Append(@, content)]
    /\ UNCHANGED <<nodes, convs, oid_counter, clock, dag, instances>>

\* A chunk without error, the k-th of the stream carrying the content k: it is
\* accumulated (line 343) and forwarded as one frame with that content
\* (line 347); relayed lists the content of the frames sent.
StreamChunk(t) ==
    /\ Running(t, "stream")
    /\ Len(turns[t].full_content) < MaxChunks
    /\ LET content == Len(turns[t].full_content) + 1
       IN turns' = [turns EXCEPT ![t].full_content = Append(@, content),
                                 ![t].frames = Append(@, "content"),
                                 ![t].relayed = Append(@, content)]
    /\ UNCHANGED <<nodes, convs, oid_counter, clock, dag, instances>>

\* Mutant: the error chunk is forwarded and the turn goes on to the save.
StreamError_then_save(t) ==
    /\ Running(t, "stream")
    /\ turns' = [turns EXCEPT ![t].frames = Append(@, "error"), ![t].pc = "save"]
    /\ UNCHANGED <<nodes, convs, oid_counter, clock, dag, instances>>

\* A chunk carrying error: forwarded as one frame, then return.
StreamError(t) ==
    /\ Running(t, "stream")
    /\ turns' = [turns EXCEPT ![t] = Return(@, <<"error">>, "upstream_error")]
    /\ UNCHANGED <<nodes, convs, oid_counter, clock, dag, instances>>

\* Mutant: a disconnect is handled as any other exception, with the failure
\* frame.
ClientDisconnect_as_failure(t) ==
    /\ Running(t, "stream")
    /\ turns' = [turns EXCEPT ![t] = Return(@, <<"failed">>, "client_gone")]
    /\ UNCHANGED <<nodes, convs, oid_counter, clock, dag, instances>>

\* ConnectionError, CancelledError, BrokenPipeError or OSError raised at a
\* yield or while waiting for the next chunk: return without a frame.
ClientDisconnect(t) ==
    /\ Running(t, "stream")
    /\ turns' = [turns EXCEPT ![t] = Return(@, <<>>, "client_gone")]
    /\ UNCHANGED <<nodes, convs, oid_counter, clock, dag, instances>>

\* The stream is exhausted: save_conversation_to_database is called.
StreamEnd(t) ==
    /\ Running(t, "stream")
    /\ turns' = [turns EXCEPT ![t].pc = "save", ![t].stream_ended = TRUE]
    /\ UNCHANGED <<nodes, convs, oid_counter, clock, dag, instances>>

\* save_conversation_to_database, lines 446-492: with a MySQL connection the
\* title (first turn) or the update_time is written, then the model list.
\* An UPDATE of an id without a row changes nothing.
SaveMetadata(t, mysql_ok, title_call) ==
    /\ Running(t, "save")
    /\ LET turn == turns[t]
           c == turn.conversation_id
           hit == mysql_ok /\ c \in DOMAIN convs
           titled == IF turn.first_ask
                     THEN [convs[c] EXCEPT
                             !.title = generate_title(get_service(turn.model, TRUE),
                                                      <<"message">>, turn.full_content,
                                                      title_call),
                             !.update_time = clock]
                     ELSE [convs[c] EXCEPT !.update_time = clock]
           row == [titled EXCEPT !.model = updated_model(@, turn.model),
                                 !.update_time = clock + 1]
       IN /\ convs' = IF hit THEN [convs EXCEPT ![c] = row] ELSE convs
          /\ clock' = IF hit THEN clock + 2 ELSE clock
          /\ turns' = [turns EXCEPT ![t].pc = "mongo",
                                    ![t].connections = connect(@, "mysql", mysql_ok),
                                    ![t].writes = IF hit THEN @ \cup {"metadata"} ELSE @]
    /\ UNCHANGED <<nodes, oid_counter, dag, instances>>

\* Lines 494-506: with a node store connection the user node is inserted with
\* the parent_ids of the request.  Without one the function returns None and
\* the unpacking at line 350 raises.
InsertUserMessage(t, mongo_ok) ==
    /\ Running(t, "mongo")
    /\ LET turn == turns[t]
       IN IF mongo_ok
          THEN /\ nodes' = nodes @@ (oid_counter :>
                              MessageNode(turn.conversation_id, "user", <<"message">>,
                                          turn.model, turn.parent_ids, <<>>))
               /\ oid_counter' = oid_counter + 1
               /\ turns' = [turns EXCEPT ![t].pc = "parents",
                                         ![t].user_message_id = oid_counter,
                                         ![t].connections = connect(@, "mongo", mongo_ok),
                                         ![t].writes = @ \cup {"user"}]
          ELSE /\ turns' = [turns EXCEPT ![t] = Return(@, <<"failed">>, "exception")]
               /\ UNCHANGED <<nodes, oid_counter>>
    /\ UNCHANGED <<convs, clock, dag, instances>>

\* Lines 509-512: every parent id is parsed (InvalidId leaves the function, the
\* user node is stored), then the parents are fetched.
FindParents(t) ==
    /\ Running(t, "parents")
    /\ LET turn == turns[t]
           pids == turn.parent_ids
       IN turns' = [turns EXCEPT ![t] =
            IF pids = <<>> THEN [@ EXCEPT !.pc = "insert_ai"]
            ELSE IF \E i \in 1..Len(pids) : ~WellFormed(pids[i])
            THEN Return(@, <<"failed">>, "exception")
            ELSE LET parent_ids_object_ids == {ObjectId(pids[i]) : i \in 1..Len(pids)}
                     found == find(nodes, parent_ids_object_ids, FALSE)
                 IN [@ EXCEPT !.pc = IF found = <<>> THEN "insert_ai"
                                     ELSE "update_parents",
                              !.parent_message_nodes =
                                  [i \in 1..Len(found) |->
                                      [id |-> found[i], doc |-> nodes[found[i]]]]]]
    /\ UNCHANGED <<nodes, convs, oid_counter, clock, dag, instances>>

\* MongoDBConnection.update: update_one(query, {"$set": update_values}).
update(store, id, update_values) ==
    IF id \in DOMAIN store THEN [store EXCEPT ![id] = update_values] ELSE store

\* Lines 513-518, one parent: the fetched document gets the user node's id in
\* children, unless it is there, and is written back.
UpdateParent(t) ==
    /\ Running(t, "update_parents")
    /\ LET turn == turns[t]
           parent_message_node == Head(turn.parent_message_nodes)
           child_id_str == str(turn.user_message_id)
           absent == child_id_str \notin Range(parent_message_node.doc.children)
           rest == Tail(turn.parent_message_nodes)
       IN /\ nodes' = IF absent
                      THEN update(nodes, parent_message_node.id,
                                  [parent_message_node.doc EXCEPT
                                      !.children = Append(@, child_id_str)])
                      ELSE nodes
          /\ turns' = [turns EXCEPT ![t].parent_message_nodes = rest,
                                    ![t].pc = IF rest = <<>> THEN "insert_ai" ELSE @,
                                    ![t].writes = IF absent THEN @ \cup {"children"} ELSE @]
    /\ UNCHANGED <<convs, oid_counter, clock, dag, instances>>

\* Mutant: the ids are returned as soon as the assistant node is inserted,
\* before the two nodes are linked.
InsertAiMessage_then_return(t) ==
    /\ Running(t, "insert_ai")
    /\ LET turn == turns[t]
       IN /\ nodes' = nodes @@ (oid_counter :>
                          MessageNode(turn.conversation_id, "assistant",
                                      turn.full_content, turn.model, <<>>, <<>>))
          /\ oid_counter' = oid_counter + 1
          /\ turns' = [turns EXCEPT ![t].pc = "complete",
                                    ![t].ai_message_id = oid_counter,
                                    ![t].writes = @ \cup {"assistant"}]
    /\ UNCHANGED <<convs, clock, dag, instances>>

\* Lines 521-530: the assistant node is inserted with empty parent_ids.
InsertAiMessage(t) ==
    /\ Running(t, "insert_ai")
    /\ LET turn == turns[t]
       IN /\ nodes' = nodes @@ (oid_counter :>
                          MessageNode(turn.conversation_id, "assistant",
                                      turn.full_content, turn.model, <<>>, <<>>))
          /\ oid_counter' = oid_counter + 1
          /\ turns' = [turns EXCEPT ![t].pc = "update_user",
                                    ![t].ai_message_id = oid_counter,
                                    ![t].writes = @ \cup {"assistant"}]
    /\ UNCHANGED <<convs, clock, dag, instances>>

\* Lines 535-538 and 547: a fresh dump of the user message, with the assistant
\* id as its only child, replaces the stored fields.
UpdateUserMessage(t) ==
    /\ Running(t, "update_user")
    /\ LET turn == turns[t]
           user_message_dict ==
               MessageNode(turn.conversation_id, "user", <<"message">>, turn.model,
                           turn.parent_ids, <<str(turn.ai_message_id)>>)
       IN /\ nodes' = update(nodes, turn.user_message_id, user_message_dict)
          /\ turns' = [turns EXCEPT ![t].pc = "update_ai",
                                    ![t].writes = @ \cup {"user_link"}]
    /\ UNCHANGED <<convs, oid_counter, clock, dag, instances>>

\* Lines 541-544 and 548: the assistant node gets the user id as its parent.
UpdateAiMessage(t) ==
    /\ Running(t, "update_ai")
    /\ LET turn == turns[t]
           ai_message_dict ==
               MessageNode(turn.conversation_id, "assistant", turn.full_content,
                           turn.model, <<str(turn.user_message_id)>>, <<>>)
       IN /\ nodes' = update(nodes, turn.ai_message_id, ai_message_dict)
          /\ turns' = [turns EXCEPT ![t].pc = "complete",
                                    ![t].writes = @ \cup {"assistant_link"}]
    /\ UNCHANGED <<convs, oid_counter, clock, dag, instances>>

\* Lines 353-359: the frame with both ids and complete = True.
Complete(t) ==
    /\ Running(t, "complete")
    /\ turns' = [turns EXCEPT ![t] = Return(@, <<"complete">>, "complete")]
    /\ UNCHANGED <<nodes, convs, oid_counter, clock, dag, instances>>

Next ==
    \/ \E model \in CreateModels : CreateConversation(model)
    \/ /\ Quiescent
       /\ Len(turns) < MaxTurns
       /\ \E conversation_id \in ConvIds, parent_ids \in RequestLists,
             model \in Models, mongo_ok \in BOOLEAN :
               Chat(conversation_id, parent_ids, model, mongo_ok)
    \/ \E t \in 1..MaxTurns :
        \/ \E constructs \in BOOLEAN : GenerateStart(t, constructs)
        \/ StreamChunk(t)
        \/ StreamError(t)
        \/ ClientDisconnect(t)
        \/ StreamEnd(t)
        \/ \E mysql_ok \in BOOLEAN, title_call \in TitleCalls :
                SaveMetadata(t, mysql_ok, title_call)
        \/ \E mongo_ok \in BOOLEAN : InsertUserMessage(t, mongo_ok)
        \/ FindParents(t)
        \/ UpdateParent(t)
        \/ InsertAiMessage(t)
        \/ UpdateUserMessage(t)
        \/ UpdateAiMessage(t)
        \/ Complete(t)

Spec == Init /\ [][Next]_vars

(***************************************************************************)
(* Properties of the node store and of a turn's end.                       *)
(***************************************************************************)
Turns == 1..Len(turns)

\* No turn is in progress, every turn was sent to a created conversation and
\* ended with the complete frame.
AllCompleted ==
    /\ Quiescent
    /\ \A t \in Turns : /\ turns[t].exit = "complete"
                        /\ turns[t].conversation_id \in DOMAIN convs

\* The first parent id of turn t names a node of the store.
NamesStoredParent(t) ==
    /\ turns[t].parent_ids # <<>>
    /\ WellFormed(turns[t].parent_ids[1])
    /\ ObjectId(turns[t].parent_ids[1]) \in DOMAIN nodes

\* C5: with no turn in progress and every turn completed on a created
\* conversation, p is listed in
\* x.parent_ids exactly when x is listed in p.children, for all stored x, p.
C5_Mirror ==
    AllCompleted =>
        \A x \in DOMAIN nodes, p \in DOMAIN nodes :
            (str(p) \in Range(nodes[x].parent_ids))
                <=> (str(x) \in Range(nodes[p].children))

\* C6: with no turn in progress and every turn completed on a created
\* conversation, no stored node is its own ancestor along parent_ids.
C6_Acyclic ==
    AllCompleted =>
        \A x \in DOMAIN nodes : x \notin AncestorClosure(nodes, ParentsOf(nodes, x))

\* C7: with no turn in progress and every turn completed on a created
\* conversation, every entry of a stored node's parent_ids is the id of a
\* stored node of the same conversation.
C7_ParentsExist ==
    AllCompleted =>
        \A x \in DOMAIN nodes : \A i \in 1..Len(nodes[x].parent_ids) :
            LET s == nodes[x].parent_ids[i]
            IN /\ WellFormed(s)
               /\ ObjectId(s) \in DOMAIN nodes
               /\ nodes[ObjectId(s)].conversation_id = nodes[x].conversation_id

\* C8: an ended turn has left no user node without its assistant node, no
\* assistant node with empty parent_ids and no metadata update without nodes.
C8_Atomic ==
    \A t \in Turns :
        turns[t].pc = "done" =>
            /\ ~(turns[t].user_message_id # None /\ turns[t].ai_message_id = None)
            /\ (turns[t].ai_message_id \in DOMAIN nodes
                    => nodes[turns[t].ai_message_id].parent_ids # <<>>)
            /\ ~("metadata" \in turns[t].writes /\ turns[t].user_message_id = None)

\* C9: a turn ended by a client disconnect during the stream has emitted
\* content frames only, inserted no node and written nothing to either store.
C9_ClientDisconnect ==
    \A t \in Turns :
        turns[t].exit = "client_gone" =>
            /\ turns[t].pc = "done"
            /\ \A i \in 1..Len(turns[t].frames) : turns[t].frames[i] = "content"
            /\ turns[t].user_message_id = None
            /\ turns[t].ai_message_id = None
            /\ turns[t].writes = {}

\* A disconnect after a content frame, on a turn of an existing conversation
\* that names a stored parent.
C9_Witness ==
    \E t \in Turns :
        /\ turns[t].exit = "client_gone"
        /\ Len(turns[t].frames) >= 1
        /\ turns[t].conversation_id \in DOMAIN convs
        /\ NamesStoredParent(t)

\* C10: a turn that has emitted an error chunk has ended, the error frame is
\* its last and only error frame, after content frames only, and the turn has
\* inserted no node and written nothing to either store.
C10_UpstreamError ==
    \A t \in Turns :
        "error" \in Range(turns[t].frames) =>
            /\ turns[t].pc = "done"
            /\ turns[t].frames[Len(turns[t].frames)] = "error"
            /\ \A i \in 1..(Len(turns[t].frames) - 1) : turns[t].frames[i] = "content"
            /\ turns[t].user_message_id = None
            /\ turns[t].ai_message_id = None
            /\ turns[t].writes = {}

\* An error chunk after a content chunk, on a turn of an existing conversation
\* that names a stored parent.
C10_Witness ==
    \E t \in Turns :
        /\ turns[t].exit = "upstream_error"
        /\ Len(turns[t].frames) >= 2
        /\ turns[t].conversation_id \in DOMAIN convs
        /\ NamesStoredParent(t)

\* C11: a turn whose service lookup returned None (no registered name in the
\* model name, or the constructor raised) has ended with the single frame
\* that names the model as unsupported: no chunk was requested or forwarded,
\* and the turn wrote no row and no node.
C11_Unsupported ==
    \A t \in Turns :
        turns[t].model_service = "None" =>
            /\ turns[t].pc = "done"
            /\ turns[t].exit = "unsupported"
            /\ turns[t].frames = <<"unsupported">>
            /\ turns[t].writes = {}
            /\ turns[t].user_message_id = None
            /\ turns[t].ai_message_id = None

\* A request on a created conversation that names a stored parent and whose
\* DeepSeek constructor raised.
C11_Witness ==
    \E t \in Turns :
        /\ turns[t].model_service = "None"
        /\ turns[t].model = "deepseek"
        /\ turns[t].conversation_id \in DOMAIN convs
        /\ NamesStoredParent(t)

\* The number of content frames turn t has sent.
ContentFrames(t) ==
    Cardinality({i \in 1..Len(turns[t].frames) : turns[t].frames[i] = "content"})

\* C12: a turn sends one content frame per chunk without error, in the order
\* the upstream produced the chunks; while the turn runs the accumulated
\* content is the concatenation of the frames' content, and so is the content
\* of the assistant node the turn stores.
C12_OrderAndAccumulation ==
    \A t \in Turns :
        /\ Len(turns[t].relayed) = ContentFrames(t)
        /\ turns[t].relayed = [k \in 1..ContentFrames(t) |-> k]
        /\ turns[t].pc # "done" => turns[t].full_content = turns[t].relayed
        /\ turns[t].ai_message_id \in DOMAIN nodes =>
                /\ nodes[turns[t].ai_message_id].role = "assistant"
                /\ nodes[turns[t].ai_message_id].content = turns[t].relayed

\* A later turn that names a stored parent, relayed MaxChunks chunks and
\* stored its assistant node.
C12_Witness ==
    \E t \in Turns :
        /\ t > 1
        /\ NamesStoredParent(t)
        /\ turns[t].exit = "complete"
        /\ Len(turns[t].relayed) = MaxChunks
        /\ turns[t].ai_message_id \in DOMAIN nodes

\* The frames that end a stream: the three error frames and the complete frame.
TerminalFrames == {"unsupported", "failed", "error", "complete"}

\* The positions of the terminal frames among the frames of turn t.
TerminalAt(t) ==
    {i \in 1..Len(turns[t].frames) : turns[t].frames[i] \in TerminalFrames}

\* A running turn has sent no terminal frame; a turn that ended otherwise than
\* by a client disconnect has sent exactly one, as its last frame; a turn
\* whose stream and save went through has sent the complete frame.
C13_OneTerminal ==
    \A t \in Turns :
        /\ turns[t].pc # "done" => TerminalAt(t) = {}
        /\ turns[t].pc = "done" /\ turns[t].exit # "client_gone" =>
                TerminalAt(t) = {Len(turns[t].frames)}
        /\ turns[t].exit = "complete" <=>
                (turns[t].frames # <<>>
                 /\ turns[t].frames[Len(turns[t].frames)] = "complete")

\* The step that sends the complete frame of turn t: the frame carries the ids
\* of the user node and of the assistant node this turn inserted, both nodes
\* are stored and linked to each other, every named parent that was found has
\* been written, and the turn ends.
C13_CompleteStep ==
    \A t \in Turns :
        (turns'[t].exit = "complete" /\ turns[t].exit # "complete") =>
            LET turn == turns[t]
                u == turn.user_message_id
                a == turn.ai_message_id
            IN /\ turns'[t].pc = "done"
               /\ turns'[t].user_message_id = u /\ turns'[t].ai_message_id = a
               /\ {"user", "assistant", "user_link", "assistant_link"} \subseteq turn.writes
               /\ u \in DOMAIN nodes /\ a \in DOMAIN nodes /\ u # a
               /\ nodes[u].role = "user" /\ nodes[a].role = "assistant"
               /\ nodes[u].children = <<str(a)>>
               /\ nodes[a].parent_ids = <<str(u)>>
               /\ nodes' = nodes

\* C13: a stream that no client disconnect cut ends with exactly one terminal
\* frame and nothing after it; the complete frame is sent only once the user
\* node, the assistant node and their links are stored, and carries the ids of
\* these two nodes.
C13_TerminalFrame == []C13_OneTerminal /\ [][C13_CompleteStep]_vars

\* A completed later turn that names a stored parent and relayed a chunk.
C13_Witness ==
    \E t \in Turns :
        /\ t > 1
        /\ NamesStoredParent(t)
        /\ turns[t].exit = "complete"
        /\ turns[t].frames = <<"content", "complete">>
        /\ "children" \in turns[t].writes

\* C14: a turn whose stream ended without an error chunk sends no error
\* frame, whatever happens to the writes of the save.
C14_StorageFailuresInternal ==
    \A t \in Turns :
        turns[t].stream_ended =>
            \A i \in 1..Len(turns[t].frames) :
                turns[t].frames[i] \notin {"unsupported", "failed", "error"}

(***************************************************************************)
(* Chat turns that overlap.  SpecWriters starts where Spec stands after a  *)
(* conversation was created and one turn completed in it; then MaxWriters  *)
(* requests that name a node of that turn arrive at any time, served by    *)
(* server processes that share the two stores, so that the store           *)
(* operations of their saves interleave.                                   *)
(***************************************************************************)
MaxWriters == 2

\* The turn that completed before the writers arrive.
FirstTurn ==
    [pc |-> "done", conversation_id |-> "c1", parent_ids |-> <<>>,
     model |-> "qwen", first_ask |-> TRUE, chat_messages |-> <<>>,
     full_content |-> <<>>, frames |-> <<"complete">>, relayed |-> <<>>,
     user_message_id |-> 1, ai_message_id |-> 2,
     parent_message_nodes |-> <<>>, exit |-> "complete",
     model_service |-> "qwen", stream_ended |-> TRUE,
     connections |-> {"mysql", "mongo"},
     writes |-> {"metadata", "user", "assistant", "user_link", "assistant_link"}]

\* The state of Spec after CreateConversation and the steps of FirstTurn.
AfterFirstTurn ==
    /\ nodes = (1 :> MessageNode("c1", "user", <<"message">>, "qwen", <<>>, <<str(2)>>))
             @@ (2 :> MessageNode("c1", "assistant", <<>>, "qwen", <<str(1)>>, <<>>))
    /\ convs = ("c1" :> [user_id |-> "zm-bad",
                         title |-> generate_title("qwen", <<"message">>, <<>>, <<>>),
                         model |-> <<"deepseek", "qwen">>,
                         create_time |-> 1, update_time |-> 3])
    /\ turns = <<FirstTurn>>
    /\ oid_counter = 3
    /\ clock = 4
    /\ instances = {"qwen"}
    /\ dag = [phase |-> "idle"]

WritersInit == AfterFirstTurn

\* parent_ids of a writer: one node of the first turn.
WriterLists == {<<str(n)>> : n \in {FirstTurn.user_message_id, FirstTurn.ai_message_id}}

Writers == 2..(1 + MaxWriters)

WritersNext ==
    \/ /\ Len(turns) < 1 + MaxWriters
       /\ \E parent_ids \in WriterLists : Chat("c1", parent_ids, "qwen", TRUE)
    \/ \E t \in Writers :
        \/ GenerateStart(t, TRUE)
        \/ StreamChunk(t)
        \/ StreamEnd(t)
        \/ SaveMetadata(t, TRUE, <<>>)
        \/ InsertUserMessage(t, TRUE)
        \/ FindParents(t)
        \/ UpdateParent(t)
        \/ InsertAiMessage(t)
        \/ UpdateUserMessage(t)
        \/ UpdateAiMessage(t)
        \/ Complete(t)

SpecWriters == WritersInit /\ [][WritersNext]_vars

\* The number of times the string s is listed in the sequence ids.
Occurrences(ids, s) == Cardinality({i \in 1..Len(ids) : ids[i] = s})

\* C15: when two turns that name the same parent, stored before either of
\* them inserted a node, have both completed, the parent's children list holds the user node id of each of them exactly
\* once, whatever the order of their find and update steps was.
C15_ConcurrentWriters ==
    \A t \in Turns, u \in Turns :
        ( /\ t < u
          /\ turns[t].exit = "complete" /\ turns[u].exit = "complete"
          /\ turns[t].parent_ids = turns[u].parent_ids
          /\ NamesStoredParent(t)
          /\ ObjectId(turns[t].parent_ids[1]) < turns[t].user_message_id
          /\ ObjectId(turns[t].parent_ids[1]) < turns[u].user_message_id ) =>
            LET children == nodes[ObjectId(turns[t].parent_ids[1])].children
            IN /\ Occurrences(children, str(turns[t].user_message_id)) = 1
               /\ Occurrences(children, str(turns[u].user_message_id)) = 1

\* A turn completed in conversation c.
HasCompletedTurn(c) ==
    \E u \in Turns : turns[u].conversation_id = c /\ turns[u].exit = "complete"

\* The save of turn t writes the row of its conversation in this step.
SavesMetadata(t) == turns[t].pc = "save" /\ turns'[t].pc = "mongo"

\* C16: the save of a turn leaves the title of its conversation as it is when
\* a turn has completed in that conversation before.
C16_TitleOnFirstTurnOnly ==
    [][\A t \in Turns :
          ( /\ SavesMetadata(t)
            /\ turns[t].conversation_id \in DOMAIN convs
            /\ HasCompletedTurn(turns[t].conversation_id) ) =>
              convs'[turns[t].conversation_id].title
                  = convs[turns[t].conversation_id].title]_vars

\* C17: once a turn has completed in a conversation, its title has between 1
\* and 20 characters.
C17_Title ==
    \A c \in DOMAIN convs :
        HasCompletedTurn(c) =>
            convs[c].title.len >= 1 /\ convs[c].title.len <= title_limit

\* The sequence seq without the later occurrences of its entries.
RECURSIVE Dedup(_)
Dedup(seq) ==
    IF seq = <<>> THEN <<>>
    ELSE LET front == Dedup(SubSeq(seq, 1, Len(seq) - 1))
             last == seq[Len(seq)]
         IN IF last \in Range(front) THEN front ELSE Append(front, last)

\* The model values of the nodes of conversation c, each once, in the order
\* in which the nodes were inserted.
ModelsOfNodes(c) ==
    LET ids == sorted({n \in DOMAIN nodes : nodes[n].conversation_id = c})
    IN Dedup([i \in 1..Len(ids) |-> nodes[ids[i]].model])

\* C18: with no turn in progress and every turn completed on a created
\* conversation, the model list of each header is the list of the distinct
\* model values of the conversation's nodes in order of first use.
C18_ModelSet ==
    AllCompleted => \A c \in DOMAIN convs : convs[c].model = ModelsOfNodes(c)

(***************************************************************************)
(* update_conversation_models on its own.  The model column and the model  *)
(* of a request are strings: sequences of the characters ModelChars.       *)
(* SpecModels starts from a header with any short model string and calls   *)
(* the function at most MaxCalls times.                                    *)
(***************************************************************************)
MaxModelChars == 2
MaxCalls == 2

ModelChars == {"q", "d", ",", " "}

\* The strings of at most n characters.
RECURSIVE Strings(_)
Strings(n) ==
    IF n = 0 THEN {<<>>}
    ELSE LET shorter == Strings(n - 1)
         IN shorter \cup {Append(s, c) : s \in {x \in shorter : Len(x) = n - 1},
                                         c \in ModelChars}

\* s.split(',').
RECURSIVE split(_)
split(s) ==
    IF \A i \in 1..Len(s) : s[i] # ","
    THEN <<s>>
    ELSE LET i == CHOOSE j \in 1..Len(s) :
                      s[j] = "," /\ \A k \in 1..(j - 1) : s[k] # ","
         IN <<SubSeq(s, 1, i - 1)>> \o split(SubSeq(s, i + 1, Len(s)))

\* s.strip().
RECURSIVE strip(_)
strip(s) ==
    IF s = <<>> THEN s
    ELSE IF s[1] = " " THEN strip(Tail(s))
    ELSE IF s[Len(s)] = " " THEN strip(SubSeq(s, 1, Len(s) - 1))
    ELSE s

\* ','.join(parts).
RECURSIVE join(_)
join(parts) ==
    IF parts = <<>> THEN <<>>
    ELSE IF Len(parts) = 1 THEN parts[1]
    ELSE parts[1] \o <<",">> \o join(Tail(parts))

\* [model.strip() for model in s.split(',') if model.strip()].
current_models_of(s) ==
    LET parts == split(s)
        kept == SelectSeq(parts, LAMBDA part : strip(part) # <<>>)
    IN [i \in 1..Len(kept) |-> strip(kept[i])]

\* update_conversation_models, lines 397-412: the value written to the model
\* column for the current value and the model of the request.
update_conversation_models(current_model, new_model) ==
    IF current_model = <<>> THEN new_model
    ELSE LET current_models == current_models_of(current_model)
         IN join(IF new_model \in Range(current_models) THEN current_models
                 ELSE Append(current_models, new_model))

ModelsInit ==
    /\ dag \in [phase : {"models"}, model : Strings(MaxModelChars),
                 before : {<<>>}, calls : {<<>>}]
    /\ nodes = <<>>
    /\ convs = <<>>
    /\ turns = <<>>
    /\ oid_counter = 1
    /\ clock = 1
    /\ instances = {}

\* One call with the model new_model on the header.
UpdateModels(new_model) ==
    /\ dag.phase = "models"
    /\ Len(dag.calls) < MaxCalls
    /\ dag' = [dag EXCEPT !.before = dag.model,
                          !.model = update_conversation_models(dag.model, new_model),
                          !.calls = Append(@, new_model)]
    /\ UNCHANGED <<nodes, dispatcher_vars>>

\* The model strings that reach the save: get_service finds a registered name
\* ("q" or "d" here) in them.
SavedModels ==
    {m \in Strings(MaxModelChars) : "q" \in Range(m) \/ "d" \in Range(m)}

ModelsNext == \E new_model \in SavedModels : UpdateModels(new_model)

SpecModels == ModelsInit /\ [][ModelsNext]_vars

\* The argument of the last call of update_conversation_models.
LastModel == dag.calls[Len(dag.calls)]

\* C19: a call of update_conversation_models with the model m keeps the
\* entries of the list in their order and adds m as the last entry exactly
\* when m is not an entry; from an empty list the result is m; a second call
\* with the same m changes nothing.
C19_UpdateRule ==
    (dag.phase = "models" /\ dag.calls # <<>>) =>
        LET entries == current_models_of(dag.before)
        IN /\ current_models_of(dag.model) =
                  IF LastModel \in Range(entries) THEN entries
                  ELSE Append(entries, LastModel)
           /\ entries = <<>> => dag.model = LastModel
           /\ (Len(dag.calls) = 2 /\ dag.calls[1] = dag.calls[2]) =>
                  dag.model = dag.before

\* A model that is one entry: not empty, no comma, no blank at either end.
IsEntry(m) == m # <<>> /\ "," \notin Range(m) /\ strip(m) = m

\* The same rule for calls whose model is one entry.
C19_UpdateRule_entries ==
    (dag.phase = "models" /\ dag.calls # <<>> /\ \A i \in 1..Len(dag.calls) : IsEntry(dag.calls[i])) =>
        LET entries == current_models_of(dag.before)
        IN /\ current_models_of(dag.model) =
                  IF LastModel \in Range(entries) THEN entries
                  ELSE Append(entries, LastModel)
           /\ entries = <<>> => dag.model = LastModel
           /\ (Len(dag.calls) = 2 /\ dag.calls[1] = dag.calls[2]) =>
                  dag.model = dag.before

(***************************************************************************)
(* DELETE /dialogue/delete.  The handler is a plain function, served from  *)
(* the thread pool, so it runs at any time, also while a turn is in        *)
(* progress.  SpecDelete starts where SpecWriters starts; delete requests  *)
(* and one more turn on the conversation follow.                           *)
(***************************************************************************)
UserIds == {"zm-bad", "other"}

\* delete_conversation, lines 169-219.  mongo_db.delete_many raises
\* AttributeError, MongoDBConnection has no such method; the handler logs it
\* and goes on to the DELETE of the row with this id and user_id.
\* execute_query returns True whether or not a row matched.
DeleteConversation(conversation_id, user_id, mysql_ok, mongo_ok) ==
    /\ IF mysql_ok
       THEN /\ convs' = [c \in {d \in DOMAIN convs :
                                    ~(d = conversation_id /\ convs[d].user_id = user_id)}
                            |-> convs[c]]
            /\ dag' = [phase |-> "delete", conversation_id |-> conversation_id,
                       user_id |-> user_id, code |-> 0]
       ELSE /\ convs' = convs
            /\ dag' = [phase |-> "delete", conversation_id |-> conversation_id,
                       user_id |-> user_id, code |-> 500]
    /\ nodes' = nodes
    /\ UNCHANGED <<turns, oid_counter, clock, instances>>

DeleteInit == AfterFirstTurn

DeleteNext ==
    \/ \E conversation_id \in ConvIds, user_id \in UserIds,
          mysql_ok \in BOOLEAN, mongo_ok \in BOOLEAN :
            DeleteConversation(conversation_id, user_id, mysql_ok, mongo_ok)
    \/ /\ Quiescent
       /\ Len(turns) < MaxTurns
       /\ \E conversation_id \in ConvIds, parent_ids \in {<<>>} \cup WriterLists :
               Chat(conversation_id, parent_ids, "qwen", TRUE)
    \/ \E t \in 1..MaxTurns :
        \/ GenerateStart(t, TRUE)
        \/ StreamChunk(t)
        \/ StreamEnd(t)
        \/ \E title_call \in TitleCalls : SaveMetadata(t, TRUE, title_call)
        \/ InsertUserMessage(t, TRUE)
        \/ FindParents(t)
        \/ UpdateParent(t)
        \/ InsertAiMessage(t)
        \/ UpdateUserMessage(t)
        \/ UpdateAiMessage(t)
        \/ Complete(t)

SpecDelete == DeleteInit /\ [][DeleteNext]_vars

\* C20: when a delete request returns code 0, the node store holds no node
\* of the conversation it named.
C20_CascadeDelete ==
    [][(dag' # dag /\ dag'.phase = "delete" /\ dag'.code = 0) =>
          \A n \in DOMAIN nodes' :
              nodes'[n].conversation_id # dag'.conversation_id]_vars

(***************************************************************************)
(* PUT /dialogue/rename, with DELETE /dialogue/delete.  SpecManage is      *)
(* SpecDelete with rename requests, which change a row while the clock is  *)
(* below MaxClock.                                                         *)
(***************************************************************************)
MaxClock == 8

MAX_TITLE_LENGTH == 64

\* The new_title of a rename request: its number of characters, and whether
\* all of them are white space.
NewTitles ==
    {[len |-> n, blank |-> b] :
        n \in {0, 1, MAX_TITLE_LENGTH, MAX_TITLE_LENGTH + 1}, b \in BOOLEAN}

\* rename_conversation, lines 223-306.  Query(min_length=1) turns an empty
\* title away with 422 before the handler runs; the handler answers 400 to a
\* title of white space or of more than MAX_TITLE_LENGTH characters.  The
\* UPDATE names the id and the user_id; execute_query returns True whether
\* or not a row matched.
RenameConversation(conversation_id, user_id, new_title, mysql_ok) ==
    LET code == IF new_title.len < 1 THEN 422
                ELSE IF new_title.blank \/ new_title.len > MAX_TITLE_LENGTH THEN 400
                ELSE IF mysql_ok THEN 0 ELSE 500
        hit == /\ code = 0
               /\ conversation_id \in DOMAIN convs
               /\ convs[conversation_id].user_id = user_id
    IN /\ hit => clock < MaxClock
       /\ convs' = IF hit
                   THEN [convs EXCEPT ![conversation_id].title =
                                          [of |-> "rename", len |-> new_title.len],
                                      ![conversation_id].update_time = clock]
                   ELSE convs
       /\ clock' = IF hit THEN clock + 1 ELSE clock
       /\ dag' = [phase |-> "rename", conversation_id |-> conversation_id,
                  user_id |-> user_id, code |-> code]
       /\ UNCHANGED <<nodes, turns, oid_counter, instances>>

ManageInit == AfterFirstTurn

ManageNext ==
    \/ DeleteNext
    \/ \E conversation_id \in ConvIds, user_id \in UserIds,
          new_title \in NewTitles, mysql_ok \in BOOLEAN :
            RenameConversation(conversation_id, user_id, new_title, mysql_ok)

SpecManage == ManageInit /\ [][ManageNext]_vars

\* The request answered in this step names an id and a user_id that no row
\* has together.
Unmatched ==
    /\ dag' # dag
    /\ dag'.phase \in {"delete", "rename"}
    /\ ~( /\ dag'.conversation_id \in DOMAIN convs
          /\ convs[dag'.conversation_id].user_id = dag'.user_id )

\* C21: a rename or a delete request that names an id and a user_id no row
\* has together is answered with a code other than 0 and leaves the rows and
\* the nodes as they were.
C21_UnknownTarget ==
    [][Unmatched => (dag'.code # 0 /\ convs' = convs /\ nodes' = nodes)]_vars

(***************************************************************************)
(* Further properties of the SubDAG builder (SpecDag).                     *)
(***************************************************************************)
\* C22: whatever strings parent_ids holds, the keys of node_map are the
\* ancestor closure of the stored nodes its well-formed strings name; a
\* malformed or empty string beside them takes nothing away.
C22_MalformedSkipped ==
    dag.phase # "input" => DagKeys = AncestorClosure(nodes, StartNodes)

(***************************************************************************)
(* Further properties of the dispatcher (Spec).                            *)
(***************************************************************************)
\* C23: a turn that obtained a service has its call of the service's stream
\* accepted: it does not end with the failure frame before the stream was
\* read to its end.
C23_UniformAdapters ==
    \A t \in Turns :
        turns[t].model_service \notin {"unset", "None"} =>
            ~(turns[t].exit = "exception" /\ ~turns[t].stream_ended)

\* C26: when the response stream of a turn has ended, whatever way it ended,
\* no connection of the request to the metadata store or to the node store
\* is open.
C26_ConnectionsReleased ==
    \A t \in Turns : turns[t].pc = "done" => turns[t].connections = {}

\* C27: a request is classified as a first ask, with a history of the one
\* message of the request, exactly when its parent_ids is empty or the SubDAG
\* built from it is empty; any other request is not a first ask and its
\* history holds one message for each node of the SubDAG before the message
\* of the request.
C27_FirstAsk ==
    [][Len(turns') = Len(turns) + 1 =>
          LET turn == turns'[Len(turns')]
              node_map == build_dag_from_parents(nodes, turn.parent_ids, FALSE).node_map
          IN /\ turn.first_ask <=> (turn.parent_ids = <<>> \/ node_map = <<>>)
             /\ turn.first_ask => Len(turn.chat_messages) = 1
             /\ ~turn.first_ask =>
                    Len(turn.chat_messages) = Len(node_map) + 1]_vars

\* The turn has built a history and its stream has not ended: chat_messages
\* is the list its adapter is called with.
HasHistory(t) == turns[t].pc \in {"generate", "stream"} /\ ~turns[t].first_ask

\* C28: the messages handed to the adapter are the role and content of the
\* SubDAG's nodes in the order of topological_sort_subdag, each node once and
\* no node from outside the ancestor closure of the start ids, followed by
\* the message of the request.
C28_HistoryOrder ==
    \A t \in Turns :
        HasHistory(t) =>
            LET d == build_dag_from_parents(nodes, turns[t].parent_ids, FALSE)
                order == topological_sort_subdag(nodes, d.node_map, d.edges)
                messages == turns[t].chat_messages
                starts == {ObjectId(s) : s \in {x \in Range(turns[t].parent_ids) :
                                                    WellFormed(x)}} \cap DOMAIN nodes
            IN /\ Len(messages) = Len(order) + 1
               /\ messages[Len(messages)] = [role |-> "user", content |-> <<"message">>]
               /\ \A i \in 1..Len(order) :
                      /\ messages[i].role = nodes[order[i]].role
                      /\ messages[i].content = nodes[order[i]].content
               /\ \A i \in 1..Len(order), j \in 1..Len(order) :
                      order[i] = order[j] => i = j
               /\ Range(order) \subseteq AncestorClosure(nodes, starts)

\* A turn that names the assistant node of an earlier turn is handed that
\* turn's user message, its reply of two chunks and the new message.
C28_Witness ==
    \E t \in Turns :
        /\ HasHistory(t)
        /\ Len(turns[t].chat_messages) = 3
        /\ turns[t].chat_messages[1].role = "user"
        /\ turns[t].chat_messages[2] = [role |-> "assistant", content |-> <<1, 2>>]

\* C30: every stored node carries the conversation_id of a row of
\* t_conversations.
C30_NoOrphans ==
    \A n \in DOMAIN nodes : nodes[n].conversation_id \in DOMAIN convs

(***************************************************************************)
(* ModelFactory.  SpecFactory applies get_service to MaxLookups model      *)
(* names.  A model name is a sequence of pieces of text, each a registered *)
(* service name in some spelling or text that holds no service name; no    *)
(* service name lies across two pieces, so that a name contains a service  *)
(* name exactly when one of its pieces is that name.  An instance is given *)
(* by the number of the constructor call that made it.                     *)
(***************************************************************************)
MaxLookups == 2

\* cls._registry in the order the service modules are imported
\* (services/__init__.py): dict order is insertion order.
_registry == <<"deepseek", "qwen", "kimi", "glm">>

Pieces == {"deepseek", "DeepSeek", "qwen", "kimi", "glm", "-chat"}

\* A model name of one piece or of two.
ModelNames == {<<p>> : p \in Pieces} \cup {<<p, q>> : p \in Pieces, q \in Pieces}

\* str.lower()
lower(model_name) ==
    [i \in 1..Len(model_name) |->
        IF model_name[i] = "DeepSeek" THEN "deepseek" ELSE model_name[i]]

\* service_name in normalized_model
contains(normalized_model, service_name) ==
    \E i \in 1..Len(normalized_model) : normalized_model[i] = service_name

\* Mutant: the last registered class whose name is contained wins.
RECURSIVE registry_lookup_last(_, _)
registry_lookup_last(normalized_model, k) ==
    IF k > Len(_registry) THEN "None"
    ELSE LET later == registry_lookup_last(normalized_model, k + 1)
         IN IF later # "None" THEN later
            ELSE IF contains(normalized_model, _registry[k]) THEN _registry[k]
            ELSE "None"

\* for service_name, cls_type in cls._registry.items(): the first class whose
\* name is contained, from the k-th entry on.
RECURSIVE registry_lookup(_, _)
registry_lookup(normalized_model, k) ==
    IF k > Len(_registry) THEN "None"
    ELSE IF contains(normalized_model, _registry[k]) THEN _registry[k]
    ELSE registry_lookup(normalized_model, k + 1)

NoInstance == [service |-> "None", instance |-> 0]

\* ModelFactory.get_service, lines 37-74.  The cache is read and written
\* under the lower-cased model name; constructs tells whether the constructor
\* of a new instance returns.
FactoryGetService(model_name, constructs) ==
    /\ dag.phase = "factory"
    /\ Len(dag.calls) < MaxLookups
    /\ LET normalized_model == lower(model_name)
           service == registry_lookup(normalized_model, 1)
       IN /\ constructs \/ ( /\ constructor_may_raise(service)
                             /\ normalized_model \notin instances )
          /\ LET made == [service |-> service, instance |-> dag.constructed + 1]
                 returned == IF normalized_model \in instances
                             THEN dag.cache[normalized_model]
                             ELSE IF service # "None" /\ constructs THEN made
                             ELSE NoInstance
                 caches == normalized_model \notin instances /\ returned # NoInstance
             IN /\ dag' = [dag EXCEPT
                             !.cache = IF caches THEN @ @@ (normalized_model :> made)
                                       ELSE @,
                             !.constructed = IF caches THEN @ + 1 ELSE @,
                             !.calls = Append(@, [model_name |-> model_name,
                                                  constructs |-> constructs,
                                                  returned |-> returned])]
                /\ instances' = IF caches THEN instances \cup {normalized_model}
                                ELSE instances
    /\ UNCHANGED <<nodes, convs, turns, oid_counter, clock>>

\* The server after start: the four classes are registered, no instance yet.
FactoryInit ==
    /\ dag = [phase |-> "factory", cache |-> <<>>, constructed |-> 0, calls |-> <<>>]
    /\ instances = {}
    /\ nodes = <<>>
    /\ convs = <<>>
    /\ turns = <<>>
    /\ oid_counter = 1
    /\ clock = 1

FactoryNext ==
    \E model_name \in ModelNames, constructs \in BOOLEAN :
        FactoryGetService(model_name, constructs)

SpecFactory == FactoryInit /\ [][FactoryNext]_vars

\* The registered names the lower-cased spelling of a model name holds.
Providers(model_name) ==
    {_registry[k] : k \in {j \in 1..Len(_registry) :
                              \E i \in 1..Len(model_name) :
                                  lower(<<model_name[i]>>) = <<_registry[j]>>}}

\* The position of a registered name in the registry.
Rank(service_name) == CHOOSE k \in 1..Len(_registry) : _registry[k] = service_name

\* C24: two calls that returned an instance of the same service returned the
\* same instance; a cached instance stays as it is; a call whose constructor
\* raised returned no instance and cached nothing.
C24_OneInstancePerProvider ==
    /\ \A i \in 1..Len(dag.calls), j \in 1..Len(dag.calls) :
          ( /\ dag.calls[i].returned # NoInstance
            /\ dag.calls[i].returned.service = dag.calls[j].returned.service )
              => dag.calls[i].returned.instance = dag.calls[j].returned.instance
    /\ Cardinality(instances) = dag.constructed

\* C25: a call returns an instance of the registered service that comes first
\* in the registry among those whose name the lower-cased model name
\* contains, unless the constructor of a new instance raised; it returns no
\* instance when the name contains no registered name.
C25_ContainmentLookup ==
    \A i \in 1..Len(dag.calls) :
        LET call == dag.calls[i]
            found == Providers(call.model_name)
        IN /\ found = {} => call.returned = NoInstance
           /\ (found # {} /\ call.returned # NoInstance) =>
                  /\ call.returned.service \in found
                  /\ \A p \in found : Rank(call.returned.service) <= Rank(p)
           /\ (found # {} /\ call.constructs) => call.returned # NoInstance

\* A name in mixed case that holds two registered names was resolved to the
\* one registered first, which is not the first in the name.
C25_Witness ==
    \E i \in 1..Len(dag.calls) :
        /\ dag.calls[i].model_name = <<"qwen", "DeepSeek">>
        /\ dag.calls[i].returned.service = "deepseek"

(***************************************************************************)
(* The traversal of build_dag_from_parents, one round of its loop at a     *)
(* time.  SpecBfs applies it to chains of max_depth nodes and of one node  *)
(* more, open or closed to a ring by the parent_ids of their first node,   *)
(* and to all stores of up to MaxRing nodes whose nodes name any nodes as  *)
(* parents.  The function runs to its return without waiting for          *)
(* anything, so every enabled step is taken.                               *)
(***************************************************************************)
MaxRing == 2

\* Nodes 1..n, node i naming node i - 1; the first node names the strings of
\* back.
Chain(n, back) ==
    [i \in 1..n |->
        MessageNode("c1", "user", <<>>, "qwen",
                    IF i = 1 THEN back ELSE <<str(i - 1)>>, <<>>)]

\* Nodes 1..n, every node naming any set of nodes, itself included.
Tangles(n) ==
    {[i \in 1..n |-> MessageNode("c1", "user", <<>>, "qwen", sorted(ps[i]), <<>>)] :
        ps \in [1..n -> SUBSET (1..n)]}

\* A chain is traversed from its last node; its first node names no node,
\* the last node (a ring), or an id that is not stored.
LongCalls ==
    UNION {{[store |-> Chain(n, back), parent_ids |-> <<str(n)>>] :
                back \in {<<>>, <<str(n)>>, <<str(n + 1)>>}} :
              n \in {max_depth, max_depth + 1}}
        \ {[store |-> Chain(max_depth + 1, <<str(max_depth + 2)>>),
            parent_ids |-> <<str(max_depth + 1)>>]}

\* A small store is traversed from one or two of its nodes.
ShortCalls ==
    UNION {{[store |-> store, parent_ids |-> pl] :
                store \in Tangles(n),
                pl \in {<<str(1)>>, <<str(n)>>, <<str(1), str(n)>>}} :
              n \in 1..MaxRing}

BfsInit ==
    /\ \E call \in LongCalls \cup ShortCalls :
          /\ nodes = call.store
          /\ dag = [phase |-> "call", parent_ids |-> call.parent_ids, queue |-> <<>>,
                    visited |-> {}, node_map |-> <<>>, current_depth |-> 0,
                    edges |-> <<>>]
    /\ convs = <<>>
    /\ turns = <<>>
    /\ oid_counter = Len(nodes) + 2
    /\ clock = 1
    /\ instances = {}

\* Lines 41-61: the start ids are parsed and queued.
BfsBegin ==
    /\ dag.phase = "call"
    /\ dag' = IF \E i \in 1..Len(dag.parent_ids) :
                     dag.parent_ids[i] # EmptyStr /\ ~WellFormed(dag.parent_ids[i])
              THEN [dag EXCEPT !.phase = "built"]
              ELSE LET given == SelectSeq(dag.parent_ids, LAMBDA pid : pid # EmptyStr)
                   IN [dag EXCEPT !.phase = "loop",
                                  !.queue = [i \in 1..Len(given) |-> ObjectId(given[i])]]
    /\ UNCHANGED <<nodes, dispatcher_vars>>

\* Mutant: the loop goes on while the queue holds an id.
BfsRound_unbounded ==
    /\ dag.phase = "loop"
    /\ dag.queue # <<>>
    /\ LET batch_size == Min(Len(dag.queue), batch_limit)
           current_batch == SubSeq(dag.queue, 1, batch_size)
           rest == SubSeq(dag.queue, batch_size + 1, Len(dag.queue))
           r == VisitBatch(find(nodes, Range(current_batch), FALSE),
                           nodes, dag.visited, dag.node_map, rest)
       IN dag' = [dag EXCEPT !.queue = r.queue, !.visited = r.visited,
                             !.node_map = r.keys, !.current_depth = @ + 1]
    /\ UNCHANGED <<nodes, dispatcher_vars>>

\* Lines 63-85: one round of the loop, one batched lookup.
BfsRound ==
    /\ dag.phase = "loop"
    /\ dag.queue # <<>> /\ dag.current_depth < max_depth
    /\ LET batch_size == Min(Len(dag.queue), batch_limit)
           current_batch == SubSeq(dag.queue, 1, batch_size)
           rest == SubSeq(dag.queue, batch_size + 1, Len(dag.queue))
           r == VisitBatch(find(nodes, Range(current_batch), FALSE),
                           nodes, dag.visited, dag.node_map, rest)
       IN dag' = [dag EXCEPT !.queue = r.queue, !.visited = r.visited,
                             !.node_map = r.keys, !.current_depth = @ + 1]
    /\ UNCHANGED <<nodes, dispatcher_vars>>

\* Lines 91-95 for a store in which no parent_ids lists an id twice:
\* edges[p] lists the keys of node_map that name p, in the order of node_map.
edges_by_parent(store, node_map) ==
    [p \in Range(node_map) |->
        SelectSeq(node_map, LAMBDA node_id : p \in Range(store[ObjectId(node_id)].parent_ids))]

\* Lines 87-105: the loop has ended; the edges are built and the function
\* returns.
BfsReturn ==
    /\ dag.phase = "loop"
    /\ ~(dag.queue # <<>> /\ dag.current_depth < max_depth)
    /\ dag' = [dag EXCEPT !.phase = "built",
                          !.edges = edges_by_parent(nodes, dag.node_map)]
    /\ UNCHANGED <<nodes, dispatcher_vars>>

BfsNext == BfsBegin \/ BfsRound \/ BfsReturn

SpecBfs == BfsInit /\ [][BfsNext]_vars /\ WF_vars(BfsNext)

\* The traversal stopped at the bound with ids left in the queue.
CutShort ==
    dag.phase = "built" /\ dag.current_depth = max_depth /\ dag.queue # <<>>

\* The ids left in the queue name no stored node that is not in node_map.
Exhausted == Range(dag.queue) \cap DOMAIN nodes \subseteq DagKeys

\* Every key of node_map is a start node or a parent of a key met before
\* it: node_map lies inside the ancestor closure of the start nodes.
InsideClosure ==
    \A i \in 1..Len(dag.node_map) :
        \/ dag.node_map[i] \in StartNodes
        \/ \E j \in 1..(i - 1) : dag.node_map[i] \in ParentsOf(nodes, dag.node_map[j])

\* node_map holds the start nodes and every stored parent of its keys: with
\* InsideClosure it is the ancestor closure of the start nodes.
WholeClosure ==
    /\ StartNodes \subseteq DagKeys
    /\ \A k \in DagKeys : ParentsOf(nodes, k) \subseteq DagKeys

\* C29, the bound: the traversal makes at most max_depth lookups; what it
\* returns lies inside the ancestor closure of the start nodes and holds the
\* start nodes, and it is the whole closure unless the traversal stopped at
\* the bound with a stored node still to be fetched.
C29_Collected ==
    /\ dag.current_depth <= max_depth
    /\ dag.phase = "built" =>
          /\ InsideClosure
          /\ StartNodes \subseteq DagKeys
          /\ (~CutShort \/ Exhausted) => WholeClosure

\* C29: on every store, also one whose parent_ids go round in a ring, the
\* traversal returns, and what it returns is as C29_Collected says.
C29_BoundedTraversal == []C29_Collected /\ <>(dag.phase = "built")

\* A traversal of a ring of max_depth + 1 nodes that stopped at the bound and
\* returned max_depth of them.
C29_Witness ==
    /\ CutShort
    /\ ParentsOf(nodes, 1) = {Len(nodes)}
    /\ Cardinality(DagKeys) = max_depth
    /\ ~WholeClosure

====
